---- MODULE Spec2Model ----
(***************************************************************************)
(* Office-to-PDF batch converter (Word_Powerpoint_TO_pdf.py).              *)
(*                                                                         *)
(* The model follows one invocation of the application: an upload is       *)
(* materialised in a temporary directory, process_folder_recursive walks   *)
(* the staging tree and converts / copies / skips each file, and the       *)
(* output tree is packaged by create_zip_from_folder.                      *)
(*                                                                         *)
(* Strings are sequences of one-character strings, so that pathlib's       *)
(* suffix / stem / lower and the splitting and joining of path strings are *)
(* computed, not assumed.  A path is a sequence of names (segments),       *)
(* absolute from the root of the file system.                              *)
(***************************************************************************)
EXTENDS Integers, Sequences, FiniteSets, TLC

----------------------------------------------------------------------------
(* Bounds of the model *)

MaxFiles == 2

MaxItems == 2

----------------------------------------------------------------------------
(* Characters and strings *)

UpperAlphabet ==
  <<"A","B","C","D","E","F","G","H","I","J","K","L","M",
    "N","O","P","Q","R","S","T","U","V","W","X","Y","Z">>

LowerAlphabet ==
  <<"a","b","c","d","e","f","g","h","i","j","k","l","m",
    "n","o","p","q","r","s","t","u","v","w","x","y","z">>

LowerChar(c) ==
  IF \E i \in DOMAIN UpperAlphabet : UpperAlphabet[i] = c
    THEN LowerAlphabet[CHOOSE i \in DOMAIN UpperAlphabet : UpperAlphabet[i] = c]
    ELSE c

UpperChar(c) ==
  IF \E i \in DOMAIN LowerAlphabet : LowerAlphabet[i] = c
    THEN UpperAlphabet[CHOOSE i \in DOMAIN LowerAlphabet : LowerAlphabet[i] = c]
    ELSE c

\* str.lower() and str.upper()
lower(s) == [i \in 1..Len(s) |-> LowerChar(s[i])]

upper(s) == [i \in 1..Len(s) |-> UpperChar(s[i])]

\* str.rfind(ch), one-based; 0 when ch does not occur (Python's -1)
rfind(s, ch) ==
  IF \E i \in 1..Len(s) : s[i] = ch
    THEN CHOOSE i \in 1..Len(s) : s[i] = ch /\ \A j \in (i+1)..Len(s) : s[j] # ch
    ELSE 0

\* str.startswith(prefix)
startswith(s, prefix) ==
  Len(prefix) <= Len(s) /\ SubSeq(s, 1, Len(prefix)) = prefix

\* PurePath.suffix: the last dot and what follows it, unless that dot is the
\* first or the last character of the name
suffix(name) ==
  LET i == rfind(name, ".")
  IN IF 1 < i /\ i < Len(name) THEN SubSeq(name, i, Len(name)) ELSE <<>>

\* PurePath.stem: the name without its suffix
stem(name) ==
  LET i == rfind(name, ".")
  IN IF 1 < i /\ i < Len(name) THEN SubSeq(name, 1, i - 1) ELSE name

----------------------------------------------------------------------------
(* Paths *)

\* PurePath.name and PurePath.parent
name(p) == p[Len(p)]

parent(p) == SubSeq(p, 1, Len(p) - 1)

IsPrefix(r, p) == Len(r) <= Len(p) /\ SubSeq(p, 1, Len(r)) = r

\* p is strictly below the directory r
IsUnder(p, r) == Len(r) < Len(p) /\ IsPrefix(r, p)

\* PurePath.relative_to(root), as a sequence of segments
relative_to(p, r) == SubSeq(p, Len(r) + 1, Len(p))

\* the separator str(WindowsPath) puts between segments
OsSep == "\\"

RECURSIVE JoinWith(_, _)
JoinWith(segs, sep) ==
  IF segs = <<>> THEN <<>>
  ELSE IF Len(segs) = 1 THEN segs[1]
  ELSE segs[1] \o <<sep>> \o JoinWith(Tail(segs), sep)

\* str(path) of a relative path
StrPath(rel) == JoinWith(rel, OsSep)

\* the segments of s between occurrences of the separators seps, empty
\* segments kept
RECURSIVE SplitSeps(_, _)
SplitSeps(s, seps) ==
  IF \E i \in 1..Len(s) : s[i] \in seps
    THEN LET i == CHOOSE k \in 1..Len(s) :
                    s[k] \in seps /\ \A j \in 1..(k-1) : s[j] \notin seps
         IN <<SubSeq(s, 1, i - 1)>> \o SplitSeps(SubSeq(s, i + 1, Len(s)), seps)
    ELSE <<s>>

\* str.split(sep)
SplitOn(s, sep) == SplitSeps(s, {sep})

\* str.replace(a, b) for single characters
replace(s, a, b) == [i \in 1..Len(s) |-> IF s[i] = a THEN b ELSE s[i]]

\* the separators of a Windows path
PathSeps == {"/", "\\"}

\* the segments pathlib keeps of a path string: empty and "." ones go
PathParts(s) ==
  SelectSeq(SplitSeps(s, PathSeps), LAMBDA x : x \notin {<<>>, <<".">>})

\* base / s: a string that begins with a separator is rooted and replaces
\* the base, any other is appended to it
JoinPath(base, s) ==
  IF s # <<>> /\ s[1] \in PathSeps THEN PathParts(s) ELSE base \o PathParts(s)

\* the file system's resolution of ".." segments
RECURSIVE Resolve(_)
Resolve(p) ==
  IF p = <<>> THEN <<>>
  ELSE LET q == Resolve(SubSeq(p, 1, Len(p) - 1))
       IN IF p[Len(p)] = <<".", ".">>
            THEN (IF q = <<>> THEN <<>> ELSE SubSeq(q, 1, Len(q) - 1))
            ELSE Append(q, p[Len(p)])

\* all proper and improper prefixes of p that extend r (r itself included)
PrefixesFrom(r, p) == { SubSeq(p, 1, k) : k \in Len(r)..Len(p) }

----------------------------------------------------------------------------
(* Names used by the program and by the inputs of the model *)

DOT_DOC == <<".","d","o","c">>

DOT_DOCX == <<".","d","o","c","x">>

DOT_PPT == <<".","p","p","t">>

DOT_PPTX == <<".","p","p","t","x">>

DOT_PDF == <<".","p","d","f">>

DOT_TXT == <<".","t","x","t">>

DOT_MD == <<".","m","d">>

DOT_LOG == <<".","l","o","g">>

\* the name the traversal never classifies
UPLOADED_ZIP == <<"u","p","l","o","a","d","e","d",".","z","i","p">>

\* the type tag of a copied PDF
PDF_COPIED == <<"P","D","F"," ","(","c","o","p","i","e","d",")">>

\* file and directory names of the input trees
Q_DOCX == <<"q",".","d","o","c","x">>

Q_PDF == <<"q",".","p","d","f">>

M_PPT == <<"m",".","P","P","T">>

Z_DOC == <<"z",".","d","o","c">>

K_PDF == <<"k",".","P","d","f">>

D_CSV == <<"d",".","c","s","v">>

E_LOG == <<"e",".","L","O","G">>

DOT_D_CSV == <<".","d",".","c","s","v">>

DOT_Q_DOC == <<".","q",".","d","o","c">>

DIR_R == <<"r">>

DIR_S == <<"s">>

----------------------------------------------------------------------------
(* Layout of the file system of one invocation *)

\* tempfile.TemporaryDirectory()
TempDir == << <<"t">> >>

Modes == {"direct", "zip", "folder", "files"}

\* the traversal root handed to process_folder_recursive
InRoot(m) ==
  CASE m = "zip"    -> TempDir \o << <<"e","x","t","r","a","c","t","e","d">> >>
    [] m = "direct" -> TempDir \o << <<"i","n">> >>
    [] OTHER        -> TempDir \o << <<"i","n","p","u","t">> >>

\* the output root handed to process_folder_recursive
OutRoot(m) ==
  CASE m = "zip"    -> TempDir \o << <<"c","o","n","v","e","r","t","e","d">> >>
    [] m = "direct" -> TempDir \o << <<"o","u","t">> >>
    [] OTHER        -> TempDir \o << <<"o","u","t","p","u","t">> >>

\* where handle_uploaded_zip saves the upload
ZipPath == TempDir \o <<UPLOADED_ZIP>>

----------------------------------------------------------------------------
(* File contents *)

\* the bytes of an input file
Raw(b) == <<"raw", b>>

\* what the Office application saves for a source document
SavedPdf(c) == <<"pdf", c[2]>>

\* what an interrupted copy leaves behind
Truncated(c) == <<"part", c[2]>>

----------------------------------------------------------------------------
(* Input trees: relative paths of regular files, no file being a directory
   of another *)

TreePathList ==
  << <<Q_DOCX>>, <<Q_PDF>>, <<D_CSV>>, <<E_LOG>>, <<DOT_D_CSV>>,
     <<UPLOADED_ZIP>>,
     <<DIR_R, Q_DOCX>>, <<DIR_R, Q_PDF>>, <<DIR_R, DIR_S, Q_PDF>>,
     <<Q_PDF, Z_DOC>> >>

TreePaths == { TreePathList[i] : i \in DOMAIN TreePathList }

\* contents are only compared for equality: every input file has bytes of
\* its own
IndexIn(list, q) == CHOOSE i \in DOMAIN list : list[i] = q

IsTree(S) ==
  \A p \in S : \A q \in S : p # q => ~IsPrefix(p, q)

Trees ==
  { S \in SUBSET TreePaths : Cardinality(S) <= MaxFiles /\ IsTree(S) }

\* the directories a tree rooted at r consists of, r included
DirsOf(r, S) ==
  UNION { PrefixesFrom(r, parent(r \o p)) : p \in S } \cup {r}

----------------------------------------------------------------------------
(* State *)

VARIABLES
  mode,               \* which entry point runs: a direct call of
                      \* process_folder_recursive, or one of the three uploads
  preserve_structure, \* the "Preserve folder structure" option
  uploaded_zip,       \* the uploaded archive (ZIP upload)
  uploaded_files,     \* the uploaded items (folder upload, individual files)
  pc,                 \* position of the invocation
  dirs,               \* directories of the file system (absolute paths)
  files,              \* regular files of the file system: path -> contents
  staged,             \* number of uploaded items written to the staging root
  visited,            \* files the traversal has already yielded
  converted_files,    \* list of ConversionRecords
  skipped_files,      \* list of SkipRecords
  calls,              \* calls of the Office converters, in order
  ui,                 \* what the page has shown
  com                 \* the converter call that is stepped through: where it
                      \* is and which COM calls it has made

vars ==
  << mode, preserve_structure, uploaded_zip, uploaded_files, pc, dirs, files,
     staged, visited, converted_files, skipped_files, calls, ui, com >>

\* the empty function: no file, no archive member
Empty == <<>>

NoZip == [valid |-> "none", members |-> Empty]

\* no converter call is stepped through
ComIdle ==
  [ app |-> "none", doc_path |-> <<>>, pdf_path |-> <<>>, at |-> "idle",
    pending |-> "none", result |-> "none", events |-> <<>> ]

UiInit ==
  [ errors |-> 0, warnings |-> 0, successes |-> 0, infos |-> 0,
    downloads |-> <<>>, summary |-> <<>>, tips |-> 0, exceptions |-> 0 ]

----------------------------------------------------------------------------
(* The file system *)

\* Path.is_dir() and Path.is_file()
is_dir(p) == p = <<>> \/ p \in dirs

is_file(p) == p \in DOMAIN files

\* Path.mkdir(parents=True, exist_ok=True) succeeds unless the path or one of
\* its ancestors is a regular file
MkdirOk(d) == \A q \in PrefixesFrom(<<>>, d) : q = <<>> \/ ~is_file(q)

MkdirDirs(d) == dirs \cup (PrefixesFrom(<<>>, d) \ {<<>>})

\* a variant that leaves an existing file as it is
WriteFile_KeepsExisting(fs, f, c) == fs @@ (f :> c)

\* writing f with contents c
WriteFile(fs, f, c) == (f :> c) @@ fs

\* folder_path.rglob('*') filtered by is_file(): the regular files below the
\* root; nothing when the root is not a directory
RglobFiles(root) ==
  IF is_dir(root) THEN { p \in DOMAIN files : IsUnder(p, root) } ELSE {}

----------------------------------------------------------------------------
(* Classification, lines 61-63, 103, 131, 162 *)

is_valid_office_file(file_path) ==
  lower(suffix(name(file_path))) \in {DOT_DOC, DOT_DOCX, DOT_PPT, DOT_PPTX}

\* a variant that reserves no name
IsReserved_NoName(file_path) == FALSE

IsReserved(file_path) == name(file_path) = UPLOADED_ZIP

IsPdf(file_path) == lower(suffix(name(file_path))) = DOT_PDF

\* a variant that compares the extension as written
IsSilent_CaseSensitive(file_path) ==
  \/ startswith(name(file_path), <<".">>)
  \/ suffix(name(file_path)) \in {DOT_TXT, DOT_MD, DOT_LOG}

IsSilent(file_path) ==
  \/ startswith(name(file_path), <<".">>)
  \/ lower(suffix(name(file_path))) \in {DOT_TXT, DOT_MD, DOT_LOG}

\* a variant that compares the extension as written
ConverterOf_CaseSensitive(file_path) ==
  IF suffix(name(file_path)) \in {DOT_DOC, DOT_DOCX} THEN "word"
  ELSE IF suffix(name(file_path)) \in {DOT_PPT, DOT_PPTX} THEN "powerpoint"
  ELSE "unsupported"

\* which converter convert_file_to_pdf dispatches to
ConverterOf(file_path) ==
  IF lower(suffix(name(file_path))) \in {DOT_DOC, DOT_DOCX} THEN "word"
  ELSE IF lower(suffix(name(file_path))) \in {DOT_PPT, DOT_PPTX} THEN "powerpoint"
  ELSE "unsupported"

\* the preserve_structure argument of process_folder_recursive: the option,
\* except for individual files, which pass False (line 485)
PreserveArg == IF mode = "files" THEN FALSE ELSE preserve_structure

\* a variant that mirrors the input whatever the flag
OutputDir_AlwaysMirrors(file_path) ==
  OutRoot(mode) \o relative_to(parent(file_path), InRoot(mode))

\* the output directory of a file: mirrored or flat
OutputDir(file_path) ==
  IF PreserveArg
    THEN OutRoot(mode) \o relative_to(parent(file_path), InRoot(mode))
    ELSE OutRoot(mode)

\* a variant that keeps the suffix of the input in the name of the PDF
PdfPath_KeepsSuffix(file_path) ==
  OutputDir(file_path) \o << name(file_path) \o DOT_PDF >>

\* convert_file_to_pdf: output_dir / f"{file_path.stem}.pdf"
PdfPath(file_path) ==
  OutputDir(file_path) \o << stem(name(file_path)) \o DOT_PDF >>

\* output_dir / file_path.name
PdfCopyPath(file_path) == OutputDir(file_path) \o << name(file_path) >>

\* shutil.copy2(src, dst): into dst when dst is a directory
Copy2Target(src, dst) == IF is_dir(dst) THEN dst \o << name(src) >> ELSE dst

\* a variant that stops before the end of the source
Copy2Bytes_Truncates(src) == Truncated(files[src])

\* shutil.copy2 writes the bytes of the source
Copy2Bytes(src) == files[src]

OriginalOf(file_path) == StrPath(relative_to(file_path, InRoot(mode)))

\* a variant that records the name of the source beside the output
ConvertedRecord_NamesSource(file_path, pdf_path) ==
  [ original |-> OriginalOf(file_path),
    pdf      |-> StrPath(relative_to(parent(pdf_path) \o << name(file_path) >>,
                                     OutRoot(mode))),
    type     |-> upper(suffix(name(file_path))) ]

ConvertedRecord(file_path, pdf_path) ==
  [ original |-> OriginalOf(file_path),
    pdf      |-> StrPath(relative_to(pdf_path, OutRoot(mode))),
    type     |-> upper(suffix(name(file_path))) ]

\* a variant that warns and forgets to list the file
SkippedWith_Forgets(file_path) == skipped_files

\* skipped_files.append(str(file_path.relative_to(folder_path)))
SkippedWith(file_path) == Append(skipped_files, OriginalOf(file_path))

CopiedRecord(file_path, pdf_copy_path) ==
  [ original |-> OriginalOf(file_path),
    pdf      |-> StrPath(relative_to(pdf_copy_path, OutRoot(mode))),
    type     |-> PDF_COPIED ]

----------------------------------------------------------------------------
(* Archives: entry name -> contents *)

\* a variant that names the entry by the file name alone
ArcName_FileName(file_path, folder_path) == name(file_path)

\* the entry name zipfile gives arcname: str(relative path) with the
\* separator of the platform replaced by "/"
ArcName(file_path, folder_path) ==
  replace(StrPath(relative_to(file_path, folder_path)), OsSep, "/")

\* create_zip_from_folder, lines 272-283: every regular file below
\* folder_path, under its relative path
create_zip_from_folder(folder_path) ==
  [ n \in { ArcName(p, folder_path) : p \in RglobFiles(folder_path) } |->
      files[CHOOSE p \in RglobFiles(folder_path) : ArcName(p, folder_path) = n] ]

\* ZipFile.extractall: a member lands below the target directory, at the
\* segments of its name, empty, "." and ".." segments dropped
MemberPath(target, n) ==
  target \o SelectSeq(SplitOn(n, "/"),
                      LAMBDA x : x \notin {<<>>, <<".">>, <<".", ".">>})

\* the regular files extracting the members M of archive a below target gives
Extracted(a, M, target) ==
  [ p \in { MemberPath(target, n) : n \in M } |->
      a[CHOOSE n \in M : MemberPath(target, n) = p] ]

\* the contents of the saved upload itself
ZipBytes == <<"zip", 0>>

\* TemporaryDirectory.__exit__: the temporary directory and all below it go
CleanedDirs == { d \in dirs : ~IsPrefix(TempDir, d) }

CleanedFiles == [ p \in { q \in DOMAIN files : ~IsPrefix(TempDir, q) } |-> files[p] ]

----------------------------------------------------------------------------
(* process_folder_recursive, lines 90-165 *)

\* lines 95-96: the root is not a directory
PfrRaise ==
  /\ pc = "pfr_entry"
  /\ ~is_dir(InRoot(mode))
  /\ pc' = "pfr_raise"
  /\ UNCHANGED << com, mode, preserve_structure, uploaded_zip, uploaded_files, dirs,
                  files, staged, visited, converted_files, skipped_files,
                  calls, ui >>

\* a variant that starts the traversal without the check of lines 95-96
PfrBegin_Unchecked ==
  /\ pc = "pfr_entry"
  /\ pc' = "loop"
  /\ converted_files' = <<>>
  /\ skipped_files' = <<>>
  /\ visited' = {}
  /\ UNCHANGED << com, mode, preserve_structure, uploaded_zip, uploaded_files, dirs,
                  files, staged, calls, ui >>

\* lines 98-102: the lists are created and the traversal starts
PfrBegin ==
  /\ pc = "pfr_entry"
  /\ is_dir(InRoot(mode))
  /\ pc' = "loop"
  /\ converted_files' = <<>>
  /\ skipped_files' = <<>>
  /\ visited' = {}
  /\ UNCHANGED << com, mode, preserve_structure, uploaded_zip, uploaded_files, dirs,
                  files, staged, calls, ui >>

\* the traversal yields file_path next; its order is the directory listing's
Yields(file_path) ==
  /\ pc = "loop"
  /\ file_path \in RglobFiles(InRoot(mode)) \ visited
  /\ visited' = visited \cup {file_path}
  /\ pc' = "loop"

\* line 103: the reserved name is passed over
VisitReserved(file_path) ==
  /\ Yields(file_path)
  /\ IsReserved(file_path)
  /\ UNCHANGED << com, mode, preserve_structure, uploaded_zip, uploaded_files, dirs,
                  files, staged, converted_files, skipped_files, calls, ui >>

\* lines 105-124: the converter returns, having written the PDF
VisitOfficeOk(file_path) ==
  /\ Yields(file_path)
  /\ ~IsReserved(file_path)
  /\ is_valid_office_file(file_path)
  /\ MkdirOk(OutputDir(file_path))
  /\ PdfPath(file_path) \notin MkdirDirs(OutputDir(file_path))
  /\ dirs' = MkdirDirs(OutputDir(file_path))
  /\ files' = WriteFile(files, PdfPath(file_path), SavedPdf(files[file_path]))
  /\ calls' = Append(calls, [ app |-> ConverterOf(file_path), src |-> file_path,
                              dst |-> PdfPath(file_path), ok |-> TRUE ])
  /\ converted_files' =
       Append(converted_files, ConvertedRecord(file_path, PdfPath(file_path)))
  /\ ui' = [ui EXCEPT !.successes = @ + 1]
  /\ UNCHANGED << com, mode, preserve_structure, uploaded_zip, uploaded_files,
                  staged, skipped_files >>

\* lines 72, 126-129: the output directory cannot be created
VisitOfficeNoDir(file_path) ==
  /\ Yields(file_path)
  /\ ~IsReserved(file_path)
  /\ is_valid_office_file(file_path)
  /\ ~MkdirOk(OutputDir(file_path))
  /\ skipped_files' = SkippedWith(file_path)
  /\ ui' = [ui EXCEPT !.warnings = @ + 1]
  /\ UNCHANGED << com, mode, preserve_structure, uploaded_zip, uploaded_files, dirs,
                  files, staged, converted_files, calls >>

\* lines 77-87, 126-129: the converter raises; it may have saved the PDF
\* before it failed (SaveAs done, Close failing), or not
VisitOfficeFail(file_path, wrote) ==
  /\ Yields(file_path)
  /\ ~IsReserved(file_path)
  /\ is_valid_office_file(file_path)
  /\ MkdirOk(OutputDir(file_path))
  /\ wrote => PdfPath(file_path) \notin MkdirDirs(OutputDir(file_path))
  /\ dirs' = MkdirDirs(OutputDir(file_path))
  /\ files' = IF wrote
                THEN WriteFile(files, PdfPath(file_path), SavedPdf(files[file_path]))
                ELSE files
  /\ calls' = Append(calls, [ app |-> ConverterOf(file_path), src |-> file_path,
                              dst |-> PdfPath(file_path), ok |-> FALSE ])
  /\ skipped_files' = SkippedWith(file_path)
  /\ ui' = [ui EXCEPT !.warnings = @ + 1]
  /\ UNCHANGED << com, mode, preserve_structure, uploaded_zip, uploaded_files,
                  staged, converted_files >>

\* lines 131-153: the PDF is copied
VisitPdfOk(file_path) ==
  /\ Yields(file_path)
  /\ ~IsReserved(file_path)
  /\ ~is_valid_office_file(file_path)
  /\ IsPdf(file_path)
  /\ MkdirOk(OutputDir(file_path))
  /\ dirs' = MkdirDirs(OutputDir(file_path))
  /\ files' = WriteFile(files, Copy2Target(file_path, PdfCopyPath(file_path)),
                        Copy2Bytes(file_path))
  /\ converted_files' =
       Append(converted_files, CopiedRecord(file_path, PdfCopyPath(file_path)))
  /\ ui' = [ui EXCEPT !.infos = @ + 1]
  /\ UNCHANGED << com, mode, preserve_structure, uploaded_zip, uploaded_files,
                  staged, skipped_files, calls >>

\* lines 140, 145, 155-158: mkdir or copy2 raises; an interrupted copy may
\* leave a truncated file
VisitPdfFail(file_path, wrote) ==
  /\ Yields(file_path)
  /\ ~IsReserved(file_path)
  /\ ~is_valid_office_file(file_path)
  /\ IsPdf(file_path)
  /\ wrote => MkdirOk(OutputDir(file_path))
  /\ dirs' = IF MkdirOk(OutputDir(file_path))
               THEN MkdirDirs(OutputDir(file_path)) ELSE dirs
  /\ files' = IF wrote
                THEN WriteFile(files, Copy2Target(file_path, PdfCopyPath(file_path)),
                               Truncated(files[file_path]))
                ELSE files
  /\ skipped_files' = SkippedWith(file_path)
  /\ ui' = [ui EXCEPT !.warnings = @ + 1]
  /\ UNCHANGED << com, mode, preserve_structure, uploaded_zip, uploaded_files,
                  staged, converted_files, calls >>

\* lines 160-163: an unsupported file is listed as skipped
VisitUnsupported(file_path) ==
  /\ Yields(file_path)
  /\ ~IsReserved(file_path)
  /\ ~is_valid_office_file(file_path)
  /\ ~IsPdf(file_path)
  /\ ~IsSilent(file_path)
  /\ skipped_files' = SkippedWith(file_path)
  /\ UNCHANGED << com, mode, preserve_structure, uploaded_zip, uploaded_files, dirs,
                  files, staged, converted_files, calls, ui >>

\* lines 160-162: a dot file or a .txt/.md/.log file is passed over
VisitSilent(file_path) ==
  /\ Yields(file_path)
  /\ ~IsReserved(file_path)
  /\ ~is_valid_office_file(file_path)
  /\ ~IsPdf(file_path)
  /\ IsSilent(file_path)
  /\ UNCHANGED << com, mode, preserve_structure, uploaded_zip, uploaded_files, dirs,
                  files, staged, converted_files, skipped_files, calls, ui >>

\* line 165: the traversal is exhausted and the two lists are returned
PfrReturn ==
  /\ pc = "loop"
  /\ RglobFiles(InRoot(mode)) \subseteq visited
  /\ pc' = "pfr_return"
  /\ UNCHANGED << com, mode, preserve_structure, uploaded_zip, uploaded_files, dirs,
                  files, staged, visited, converted_files, skipped_files,
                  calls, ui >>

----------------------------------------------------------------------------
(* ZIP upload: handle_uploaded_zip, lines 286-326, and lines 389-418 *)

\* a variant that returns the empty lists without the message
ZipInvalid_NoMessage ==
  /\ pc = "zip_start"
  /\ uploaded_zip.valid = "notzip"
  /\ converted_files' = <<>>
  /\ skipped_files' = <<>>
  /\ pc' = "zip_returned"
  /\ UNCHANGED << com, mode, preserve_structure, uploaded_zip, uploaded_files, dirs,
                  files, staged, visited, calls, ui >>

\* lines 288-290: is_zipfile fails; one error, two empty lists returned
ZipInvalid ==
  /\ pc = "zip_start"
  /\ uploaded_zip.valid = "notzip"
  /\ ui' = [ui EXCEPT !.errors = @ + 1]
  /\ converted_files' = <<>>
  /\ skipped_files' = <<>>
  /\ pc' = "zip_returned"
  /\ UNCHANGED << com, mode, preserve_structure, uploaded_zip, uploaded_files, dirs,
                  files, staged, visited, calls >>

\* lines 292-306: the upload is saved beside the extraction directory and
\* every member is extracted
ZipExtract ==
  /\ pc = "zip_start"
  /\ uploaded_zip.valid = "ok"
  /\ LET new == Extracted(uploaded_zip.members, DOMAIN uploaded_zip.members,
                          InRoot("zip"))
     IN /\ files' = WriteFile(new @@ files, ZipPath, ZipBytes)
        /\ dirs' = dirs \cup {TempDir, InRoot("zip")}
                     \cup UNION { PrefixesFrom(InRoot("zip"), parent(p)) :
                                  p \in DOMAIN new }
  /\ ui' = [ui EXCEPT !.infos = @ + 1]
  /\ pc' = "pfr_entry"
  /\ UNCHANGED << com, mode, preserve_structure, uploaded_zip, uploaded_files,
                  staged, visited, converted_files, skipped_files, calls >>

\* lines 301-302: the archive passes is_zipfile but reading it raises
\* BadZipFile, after the members M were extracted
ZipExtractFail(M) ==
  /\ pc = "zip_start"
  /\ uploaded_zip.valid = "corrupt"
  /\ M \subseteq DOMAIN uploaded_zip.members
  /\ LET new == Extracted(uploaded_zip.members, M, InRoot("zip"))
     IN /\ files' = WriteFile(new @@ files, ZipPath, ZipBytes)
        /\ dirs' = dirs \cup {TempDir, InRoot("zip")}
                     \cup UNION { PrefixesFrom(InRoot("zip"), parent(p)) :
                                  p \in DOMAIN new }
  /\ pc' = "zip_raise"
  /\ UNCHANGED << com, mode, preserve_structure, uploaded_zip, uploaded_files,
                  staged, visited, converted_files, skipped_files, calls, ui >>

\* lines 314-324: the output is packaged and offered, if anything converted
ZipPackage ==
  /\ pc = "pfr_return"
  /\ mode = "zip"
  /\ ui' = IF converted_files # <<>>
             THEN [ui EXCEPT !.downloads =
                     Append(@, create_zip_from_folder(OutRoot("zip")))]
             ELSE ui
  /\ pc' = "zip_cleanup"
  /\ UNCHANGED << com, mode, preserve_structure, uploaded_zip, uploaded_files, dirs,
                  files, staged, visited, converted_files, skipped_files,
                  calls >>

\* line 292: leaving the with block deletes the temporary directory, on
\* return (line 326) and on an exception alike
ZipCleanup ==
  /\ pc \in {"zip_cleanup", "zip_raise"}
  /\ dirs' = CleanedDirs
  /\ files' = CleanedFiles
  /\ pc' = IF pc = "zip_cleanup" THEN "zip_returned" ELSE "zip_except"
  /\ UNCHANGED << com, mode, preserve_structure, uploaded_zip, uploaded_files,
                  staged, visited, converted_files, skipped_files, calls, ui >>

\* lines 396-410: the summary, or the warning that nothing was converted
ZipSummary ==
  /\ pc = "zip_returned"
  /\ ui' = IF converted_files # <<>>
             THEN [ui EXCEPT !.successes = @ + 1,
                             !.summary = Append(@, [ converted |-> converted_files,
                                                     skipped |-> skipped_files ])]
             ELSE [ui EXCEPT !.warnings = @ + 1]
  /\ pc' = "done"
  /\ UNCHANGED << com, mode, preserve_structure, uploaded_zip, uploaded_files, dirs,
                  files, staged, visited, converted_files, skipped_files,
                  calls >>

\* lines 412-418: an exception of the branch is shown as one error, with tips
ZipExcept ==
  /\ pc = "zip_except"
  /\ ui' = [ui EXCEPT !.errors = @ + 1, !.tips = @ + 1]
  /\ pc' = "done"
  /\ UNCHANGED << com, mode, preserve_structure, uploaded_zip, uploaded_files, dirs,
                  files, staged, visited, converted_files, skipped_files,
                  calls >>

----------------------------------------------------------------------------
(* Folder upload: process_uploaded_files_with_structure, lines 168-202, and
   lines 421-462 *)

HasSeparator(file_name) ==
  \E i \in 1..Len(file_name) : file_name[i] \in {"\\", "/"}

\* lines 181-189: where an uploaded item is written
StagedPath(file_name) ==
  IF HasSeparator(file_name)
    THEN Resolve(JoinPath(InRoot("folder"), replace(file_name, "\\", "/")))
    ELSE Resolve(JoinPath(InRoot("folder"), file_name))

\* open(file_path, "wb") succeeds when the parent is a directory and the
\* path itself is not one
OpenOk(ds, file_path) ==
  /\ file_path # <<>>
  /\ file_path \notin ds
  /\ parent(file_path) = <<>> \/ parent(file_path) \in ds

\* lines 170-174: the temporary directory and its input and output roots
FolderBegin ==
  /\ pc = "folder_start"
  /\ dirs' = dirs \cup {TempDir, InRoot("folder"), OutRoot("folder")}
  /\ pc' = "folder_stage"
  /\ UNCHANGED << com, mode, preserve_structure, uploaded_zip, uploaded_files,
                  files, staged, visited, converted_files, skipped_files,
                  calls, ui >>

\* the directories after line 187, which runs for names with a separator
StageDirs(file_name) ==
  IF HasSeparator(file_name) /\ MkdirOk(parent(StagedPath(file_name)))
    THEN MkdirDirs(parent(StagedPath(file_name)))
    ELSE dirs

StageOk(file_name) ==
  /\ HasSeparator(file_name) => MkdirOk(parent(StagedPath(file_name)))
  /\ OpenOk(StageDirs(file_name), StagedPath(file_name))

\* lines 177-193: the next item is written; after the last one the
\* conversion is called (line 196)
FolderStage ==
  /\ pc = "folder_stage"
  /\ staged < Len(uploaded_files)
  /\ LET item == uploaded_files[staged + 1]
     IN /\ StageOk(item.name)
        /\ dirs' = StageDirs(item.name)
        /\ files' = WriteFile(files, StagedPath(item.name), item.data)
  /\ staged' = staged + 1
  /\ pc' = IF staged + 1 = Len(uploaded_files) THEN "pfr_entry" ELSE "folder_stage"
  /\ UNCHANGED << com, mode, preserve_structure, uploaded_zip, uploaded_files,
                  visited, converted_files, skipped_files, calls, ui >>

\* lines 187, 192: mkdir or open raises
FolderStageRaise ==
  /\ pc = "folder_stage"
  /\ staged < Len(uploaded_files)
  /\ LET item == uploaded_files[staged + 1]
     IN /\ ~StageOk(item.name)
        /\ dirs' = StageDirs(item.name)
  /\ pc' = "folder_raise"
  /\ UNCHANGED << com, mode, preserve_structure, uploaded_zip, uploaded_files,
                  files, staged, visited, converted_files, skipped_files,
                  calls, ui >>

\* line 170: leaving the with block deletes the temporary directory, on
\* return (line 202) and on an exception alike
FolderCleanup ==
  /\ \/ pc = "pfr_return" /\ mode = "folder"
     \/ pc = "folder_raise"
  /\ dirs' = CleanedDirs
  /\ files' = CleanedFiles
  /\ pc' = IF pc = "pfr_return" THEN "folder_returned" ELSE "folder_except"
  /\ UNCHANGED << com, mode, preserve_structure, uploaded_zip, uploaded_files,
                  staged, visited, converted_files, skipped_files, calls, ui >>

\* a variant whose summary leaves the skipped files out
FolderPresent_ForgetsSkips ==
  /\ pc = "folder_returned"
  /\ ui' = IF converted_files # <<>>
             THEN [ui EXCEPT !.successes = @ + 1,
                             !.downloads =
                                Append(@, create_zip_from_folder(OutRoot("folder"))),
                             !.summary = Append(@, [ converted |-> converted_files,
                                                     skipped |-> <<>> ])]
             ELSE [ui EXCEPT !.warnings = @ + 1]
  /\ pc' = "done"
  /\ UNCHANGED << com, mode, preserve_structure, uploaded_zip, uploaded_files, dirs,
                  files, staged, visited, converted_files, skipped_files,
                  calls >>

\* lines 434-458: the archive of the returned output_dir, the download and
\* the summary, or the warning that nothing was converted
FolderPresent ==
  /\ pc = "folder_returned"
  /\ ui' = IF converted_files # <<>>
             THEN [ui EXCEPT !.successes = @ + 1,
                             !.downloads =
                                Append(@, create_zip_from_folder(OutRoot("folder"))),
                             !.summary = Append(@, [ converted |-> converted_files,
                                                     skipped |-> skipped_files ])]
             ELSE [ui EXCEPT !.warnings = @ + 1]
  /\ pc' = "done"
  /\ UNCHANGED << com, mode, preserve_structure, uploaded_zip, uploaded_files, dirs,
                  files, staged, visited, converted_files, skipped_files,
                  calls >>

\* lines 460-462: an exception of the branch is shown as one error
FolderExcept ==
  /\ pc = "folder_except"
  /\ ui' = [ui EXCEPT !.errors = @ + 1]
  /\ pc' = "done"
  /\ UNCHANGED << com, mode, preserve_structure, uploaded_zip, uploaded_files, dirs,
                  files, staged, visited, converted_files, skipped_files,
                  calls >>

----------------------------------------------------------------------------
(* Individual files, lines 465-509 *)

\* line 477: input_dir / uploaded_file.name
FilesPath(file_name) == Resolve(JoinPath(InRoot("files"), file_name))

\* lines 469-473
FilesBegin ==
  /\ pc = "files_start"
  /\ dirs' = dirs \cup {TempDir, InRoot("files"), OutRoot("files")}
  /\ pc' = "files_stage"
  /\ UNCHANGED << com, mode, preserve_structure, uploaded_zip, uploaded_files,
                  files, staged, visited, converted_files, skipped_files,
                  calls, ui >>

\* lines 476-479: the next item is written; after the last one the
\* conversion is called (line 482)
FilesStage ==
  /\ pc = "files_stage"
  /\ staged < Len(uploaded_files)
  /\ LET item == uploaded_files[staged + 1]
     IN /\ OpenOk(dirs, FilesPath(item.name))
        /\ files' = WriteFile(files, FilesPath(item.name), item.data)
  /\ staged' = staged + 1
  /\ pc' = IF staged + 1 = Len(uploaded_files) THEN "pfr_entry" ELSE "files_stage"
  /\ UNCHANGED << com, mode, preserve_structure, uploaded_zip, uploaded_files, dirs,
                  visited, converted_files, skipped_files, calls, ui >>

\* line 478: open raises; nothing catches it
FilesStageRaise ==
  /\ pc = "files_stage"
  /\ staged < Len(uploaded_files)
  /\ ~OpenOk(dirs, FilesPath(uploaded_files[staged + 1].name))
  /\ pc' = "files_raise"
  /\ UNCHANGED << com, mode, preserve_structure, uploaded_zip, uploaded_files, dirs,
                  files, staged, visited, converted_files, skipped_files,
                  calls, ui >>

\* lines 488-509: inside the with block, the archive, the download and the
\* summary, if anything was converted
FilesPresent ==
  /\ pc = "pfr_return"
  /\ mode = "files"
  /\ ui' = IF converted_files # <<>>
             THEN [ui EXCEPT !.successes = @ + 1,
                             !.downloads =
                                Append(@, create_zip_from_folder(OutRoot("files"))),
                             !.summary = Append(@, [ converted |-> converted_files,
                                                     skipped |-> skipped_files ])]
             ELSE ui
  /\ pc' = "files_cleanup"
  /\ UNCHANGED << com, mode, preserve_structure, uploaded_zip, uploaded_files, dirs,
                  files, staged, visited, converted_files, skipped_files,
                  calls >>

\* line 469: leaving the with block deletes the temporary directory
FilesCleanup ==
  /\ pc \in {"files_cleanup", "files_raise"}
  /\ dirs' = CleanedDirs
  /\ files' = CleanedFiles
  /\ pc' = IF pc = "files_cleanup" THEN "done" ELSE "files_uncaught"
  /\ UNCHANGED << com, mode, preserve_structure, uploaded_zip, uploaded_files,
                  staged, visited, converted_files, skipped_files, calls, ui >>

\* the exception leaves the script; the page shows it
FilesUncaught ==
  /\ pc = "files_uncaught"
  /\ ui' = [ui EXCEPT !.exceptions = @ + 1]
  /\ pc' = "done"
  /\ UNCHANGED << com, mode, preserve_structure, uploaded_zip, uploaded_files, dirs,
                  files, staged, visited, converted_files, skipped_files,
                  calls >>

----------------------------------------------------------------------------
(* Initial states *)

\* a direct call of process_folder_recursive: the root is a directory
\* holding a tree, a regular file, or missing; the output root is not there
\* yet
InitDirect ==
  /\ mode = "direct"
  /\ uploaded_zip = NoZip
  /\ uploaded_files = <<>>
  /\ pc = "pfr_entry"
  /\ \/ \E S \in Trees :
          /\ dirs = {TempDir} \cup DirsOf(InRoot("direct"), S)
          /\ files = [ p \in { InRoot("direct") \o q : q \in S } |->
                         Raw(IndexIn(TreePathList, relative_to(p, InRoot("direct")))) ]
     \/ /\ dirs = {TempDir}
        /\ files = (InRoot("direct") :> Raw(1))
     \/ /\ dirs = {TempDir}
        /\ files = Empty

\* the members of the uploaded archives
ZipPathList ==
  << <<Q_DOCX>>, <<K_PDF>>, <<D_CSV>>, <<UPLOADED_ZIP>>, <<DIR_R, Q_PDF>>,
     <<DIR_R, M_PPT>>, <<DIR_R, K_PDF>>, <<DOT_Q_DOC>> >>

ZipPaths == { ZipPathList[i] : i \in DOMAIN ZipPathList }

ZipTrees ==
  { S \in SUBSET ZipPaths : Cardinality(S) <= MaxFiles /\ IsTree(S) }

\* a ZIP upload: no archive at all, a sound archive, or one whose directory
\* is readable and whose data is not
InitZip ==
  /\ mode = "zip"
  /\ uploaded_files = <<>>
  /\ pc = "zip_start"
  /\ dirs = {}
  /\ files = Empty
  /\ \/ uploaded_zip = [valid |-> "notzip", members |-> Empty]
     \/ \E v \in {"ok", "corrupt"} : \E S \in ZipTrees :
          uploaded_zip =
            [ valid |-> v,
              members |-> [ n \in { JoinWith(q, "/") : q \in S } |->
                              Raw(IndexIn(ZipPathList,
                                          CHOOSE q \in S : JoinWith(q, "/") = n)) ] ]

\* names of the items of a folder upload; the uploader admits the
\* extensions doc, docx, ppt, pptx and pdf (line 374)
FolderNames ==
  { Q_DOCX, Q_PDF,
    DIR_R \o <<"/">> \o Q_DOCX,
    DIR_R \o <<"\\">> \o Q_PDF,
    DIR_R \o <<"/">> \o DIR_S \o <<"/">> \o DIR_R \o <<"/">> \o M_PPT,
    <<"/">> \o Q_DOCX,
    <<".", ".", "/">> \o Q_PDF,
    DIR_R \o <<"/", "/">> \o Q_DOCX,
    Q_PDF \o <<"/">> \o Z_DOC }

\* names of individually uploaded files; the uploader admits the
\* extensions doc, docx, ppt and pptx (line 358)
FilesNames ==
  { Q_DOCX, M_PPT, Z_DOC,
    DIR_R \o <<"/">> \o Q_DOCX,
    <<"/">> \o Q_DOCX }

\* the uploads: one to MaxItems items, the i-th with bytes of its own
ItemSeqs(names) ==
  UNION { { [i \in 1..n |-> [name |-> ns[i], data |-> Raw(i)]] : ns \in [1..n -> names] } :
          n \in 1..MaxItems }

InitFolder ==
  /\ mode = "folder"
  /\ uploaded_zip = NoZip
  /\ uploaded_files \in ItemSeqs(FolderNames)
  /\ pc = "folder_start"
  /\ dirs = {}
  /\ files = Empty

InitFiles ==
  /\ mode = "files"
  /\ uploaded_zip = NoZip
  /\ uploaded_files \in ItemSeqs(FilesNames)
  /\ pc = "files_start"
  /\ dirs = {}
  /\ files = Empty

Init ==
  /\ preserve_structure \in BOOLEAN
  /\ staged = 0
  /\ visited = {}
  /\ converted_files = <<>>
  /\ skipped_files = <<>>
  /\ calls = <<>>
  /\ ui = UiInit
  /\ com = ComIdle
  /\ \/ InitDirect
     \/ InitZip
     \/ InitFolder
     \/ InitFiles

Next ==
  \/ PfrRaise
  \/ PfrBegin
  \/ \E f \in DOMAIN files : VisitReserved(f)
  \/ \E f \in DOMAIN files : VisitOfficeOk(f)
  \/ \E f \in DOMAIN files : VisitOfficeNoDir(f)
  \/ \E f \in DOMAIN files : \E wrote \in BOOLEAN : VisitOfficeFail(f, wrote)
  \/ \E f \in DOMAIN files : VisitPdfOk(f)
  \/ \E f \in DOMAIN files : \E wrote \in BOOLEAN : VisitPdfFail(f, wrote)
  \/ \E f \in DOMAIN files : VisitUnsupported(f)
  \/ \E f \in DOMAIN files : VisitSilent(f)
  \/ PfrReturn
  \/ ZipInvalid
  \/ ZipExtract
  \/ \E M \in SUBSET DOMAIN uploaded_zip.members : ZipExtractFail(M)
  \/ ZipPackage
  \/ ZipCleanup
  \/ ZipSummary
  \/ ZipExcept
  \/ FolderBegin
  \/ FolderStage
  \/ FolderStageRaise
  \/ FolderCleanup
  \/ FolderPresent
  \/ FolderExcept
  \/ FilesBegin
  \/ FilesStage
  \/ FilesStageRaise
  \/ FilesPresent
  \/ FilesCleanup
  \/ FilesUncaught

Spec == Init /\ [][Next]_vars

----------------------------------------------------------------------------
(* The converters step by step: convert_doc_to_pdf, lines 21-38, and
   convert_pptx_to_pdf, lines 41-58, which differ in the application and the
   format number only. Every COM call returns or raises. *)

Event(call, ok) == [ call |-> call, ok |-> ok ]

Logged(call, ok) == Append(com.events, Event(call, ok))

\* lines 72-81: convert_file_to_pdf makes the output directory and calls the
\* converter of the extension
ComCall(file_path) ==
  /\ com.at = "idle"
  /\ file_path \in RglobFiles(InRoot(mode)) \ visited
  /\ is_valid_office_file(file_path)
  /\ MkdirOk(OutputDir(file_path))
  /\ dirs' = MkdirDirs(OutputDir(file_path))
  /\ visited' = visited \cup {file_path}
  /\ com' = [ app |-> ConverterOf(file_path), doc_path |-> file_path,
              pdf_path |-> PdfPath(file_path), at |-> "CoInitialize",
              pending |-> "none", result |-> "none", events |-> <<>> ]
  /\ UNCHANGED << mode, preserve_structure, uploaded_zip, uploaded_files, pc,
                  files, staged, converted_files, skipped_files, calls, ui >>

\* what every step of a converter leaves alone
ComFrame ==
  UNCHANGED << mode, preserve_structure, uploaded_zip, uploaded_files, pc,
               dirs, staged, visited, converted_files, skipped_files, calls,
               ui >>

\* lines 23, 43: outside the try statements, a failure leaves the function
\* at once
ComCoInitialize(ok) ==
  /\ com.at = "CoInitialize"
  /\ com' = IF ok
              THEN [com EXCEPT !.events = Logged("CoInitialize", TRUE),
                               !.at = "Dispatch"]
              ELSE [com EXCEPT !.events = Logged("CoInitialize", FALSE),
                               !.pending = "com_error",
                               !.result = "raised",
                               !.at = "idle"]
  /\ UNCHANGED files
  /\ ComFrame

\* lines 26, 46: in the outer try only
ComDispatch(ok) ==
  /\ com.at = "Dispatch"
  /\ com' = IF ok
              THEN [com EXCEPT !.events = Logged("Dispatch", TRUE),
                               !.at = "Visible"]
              ELSE [com EXCEPT !.events = Logged("Dispatch", FALSE),
                               !.pending = "com_error",
                               !.at = "CoUninitialize"]
  /\ UNCHANGED files
  /\ ComFrame

\* lines 27, 47: in the outer try only, before the inner try begins
ComVisible(ok) ==
  /\ com.at = "Visible"
  /\ com' = IF ok
              THEN [com EXCEPT !.events = Logged("Visible", TRUE),
                               !.at = "Open"]
              ELSE [com EXCEPT !.events = Logged("Visible", FALSE),
                               !.pending = "com_error",
                               !.at = "CoUninitialize"]
  /\ UNCHANGED files
  /\ ComFrame

\* lines 30, 50
ComOpen(ok) ==
  /\ com.at = "Open"
  /\ com' = [com EXCEPT !.events = Logged("Open", ok),
                        !.at = IF ok THEN "SaveAs" ELSE "except"]
  /\ UNCHANGED files
  /\ ComFrame

\* lines 31, 51: the PDF is written when SaveAs returns
ComSaveAs(ok) ==
  /\ com.at = "SaveAs"
  /\ ok => com.pdf_path \notin dirs
  /\ com' = [com EXCEPT !.events = Logged("SaveAs", ok),
                        !.at = IF ok THEN "Close" ELSE "except"]
  /\ files' = IF ok
                THEN WriteFile(files, com.pdf_path, SavedPdf(files[com.doc_path]))
                ELSE files
  /\ ComFrame

\* lines 32, 52
ComClose(ok) ==
  /\ com.at = "Close"
  /\ com' = [com EXCEPT !.events = Logged("Close", ok),
                        !.at = IF ok THEN "Quit" ELSE "except"]
  /\ UNCHANGED files
  /\ ComFrame

\* lines 33-34, 53-54: the failure becomes a ValueError; the finally clause
\* of the inner try runs before it leaves
ComExcept ==
  /\ com.at = "except"
  /\ com' = [com EXCEPT !.pending = "ValueError", !.at = "Quit"]
  /\ UNCHANGED files
  /\ ComFrame

\* lines 35-36, 55-56: a failure of Quit replaces what was pending
ComQuit(ok) ==
  /\ com.at = "Quit"
  /\ com' = [com EXCEPT !.events = Logged("Quit", ok),
                        !.pending = IF ok THEN @ ELSE "com_error",
                        !.at = "CoUninitialize"]
  /\ UNCHANGED files
  /\ ComFrame

\* lines 37-38, 57-58: the finally clause of the outer try; the function
\* returns, or what is pending is raised to the caller
ComCoUninitialize ==
  /\ com.at = "CoUninitialize"
  /\ com' = [com EXCEPT !.events = Logged("CoUninitialize", TRUE),
                        !.result = IF com.pending = "none"
                                     THEN "returned" ELSE "raised",
                        !.at = "idle"]
  /\ UNCHANGED files
  /\ ComFrame

\* the converters called on the office files of a tree, each file once
InitConvert ==
  /\ preserve_structure \in BOOLEAN
  /\ staged = 0
  /\ visited = {}
  /\ converted_files = <<>>
  /\ skipped_files = <<>>
  /\ calls = <<>>
  /\ ui = UiInit
  /\ com = ComIdle
  /\ mode = "direct"
  /\ uploaded_zip = NoZip
  /\ uploaded_files = <<>>
  /\ pc = "convert"
  /\ \E S \in Trees :
       /\ dirs = {TempDir, OutRoot("direct")} \cup DirsOf(InRoot("direct"), S)
       /\ files = [ p \in { InRoot("direct") \o q : q \in S } |->
                      Raw(IndexIn(TreePathList, relative_to(p, InRoot("direct")))) ]

NextConvert ==
  \/ \E f \in DOMAIN files : ComCall(f)
  \/ \E ok \in BOOLEAN : ComCoInitialize(ok)
  \/ \E ok \in BOOLEAN : ComDispatch(ok)
  \/ \E ok \in BOOLEAN : ComVisible(ok)
  \/ \E ok \in BOOLEAN : ComOpen(ok)
  \/ \E ok \in BOOLEAN : ComSaveAs(ok)
  \/ \E ok \in BOOLEAN : ComClose(ok)
  \/ ComExcept
  \/ \E ok \in BOOLEAN : ComQuit(ok)
  \/ ComCoUninitialize

ConvertSpec == InitConvert /\ [][NextConvert]_vars

----------------------------------------------------------------------------
(* Vocabulary of the properties *)

\* the segments of a path string of a record
SegsOf(str) == SplitOn(str, OsSep)

\* the traversal has returned and the file system is as it left it
Returned == pc = "pfr_return"

\* the input files of the traversal
InputFiles == RglobFiles(InRoot(mode))

HasOfficeExtension(file_path) ==
  lower(suffix(name(file_path))) \in {DOT_DOC, DOT_DOCX, DOT_PPT, DOT_PPTX}

\* a converter call for file_path returned without error
ConversionSucceeded(file_path) ==
  \E i \in DOMAIN calls : calls[i].src = file_path /\ calls[i].ok

RecordsOf(file_path) ==
  { i \in DOMAIN converted_files :
      converted_files[i].original = OriginalOf(file_path) }

SkipsOf(file_path) ==
  { i \in DOMAIN skipped_files : skipped_files[i] = OriginalOf(file_path) }

ExtensionOf(file_path) == lower(suffix(name(file_path)))

ConvertibleExtension(file_path) ==
  ExtensionOf(file_path) \in {DOT_DOC, DOT_DOCX, DOT_PPT, DOT_PPTX, DOT_PDF}

\* what the record of an input file is, by the file and the flag alone
ExpectedRecord(file_path) ==
  LET rel == relative_to(file_path, InRoot(mode))
      out == IF ExtensionOf(file_path) = DOT_PDF
               THEN name(file_path)
               ELSE stem(name(file_path)) \o DOT_PDF
  IN [ original |-> StrPath(rel),
       pdf      |-> IF PreserveArg THEN StrPath(parent(rel) \o <<out>>)
                                   ELSE StrPath(<<out>>),
       type     |-> IF ExtensionOf(file_path) = DOT_PDF
                      THEN PDF_COPIED ELSE upper(suffix(name(file_path))) ]

\* the file a record names as produced, and the input file it names
ProducedFile(r) == OutRoot(mode) \o SegsOf(r.pdf)

SourceFile(r) == InRoot(mode) \o SegsOf(r.original)

----------------------------------------------------------------------------
(* C1: when process_folder_recursive has returned, every input file with an
   extension doc, docx, ppt or pptx (in any case) whose conversion succeeded
   has exactly one ConversionRecord with its relative path as original, and
   the produced path of that record has the extension .pdf and the stem of
   the input file. *)
C1_OneRecordPerConvertedFile ==
  Returned =>
    \A f \in InputFiles :
      (HasOfficeExtension(f) /\ ConversionSucceeded(f)) =>
        /\ Cardinality(RecordsOf(f)) = 1
        /\ \A i \in RecordsOf(f) :
             /\ suffix(name(SegsOf(converted_files[i].pdf))) = DOT_PDF
             /\ stem(name(SegsOf(converted_files[i].pdf))) = stem(name(f))

\* two office files were converted, one of them nested and one with an
\* upper-case extension
C1_Witness ==
  /\ Returned
  /\ Len(calls) = 2
  /\ \A i \in DOMAIN calls : calls[i].ok
  /\ \E i \in DOMAIN calls : Len(relative_to(calls[i].src, InRoot(mode))) > 1
  /\ \E i \in DOMAIN calls : suffix(name(calls[i].src)) = upper(DOT_PPT)

----------------------------------------------------------------------------
\* the input files whose output is written at the produced path of record r:
\* office files by their stem, PDFs by their name
WritersOf(r) ==
  { g \in InputFiles :
      /\ ConvertibleExtension(g)
      /\ name(g) # UPLOADED_ZIP
      /\ ExpectedRecord(g).pdf = r.pdf }

CopiedIntact(r) ==
  /\ is_file(ProducedFile(r))
  /\ files[ProducedFile(r)] = files[SourceFile(r)]

(* C2 as stated: when process_folder_recursive has returned, for every record
   of type 'PDF (copied)' the file at the produced path under the output root
   has the bytes of the input file the record names. *)
C2_EveryCopyIntact ==
  Returned =>
    \A i \in DOMAIN converted_files :
      converted_files[i].type = PDF_COPIED => CopiedIntact(converted_files[i])

(* C2, amended: when process_folder_recursive has returned, for every record
   of type 'PDF (copied)' whose produced path no other input file is written
   to, the file at the produced path under the output root has the bytes of
   the input file the record names. *)
C2_CopyIntactUnlessOverwritten ==
  Returned =>
    \A i \in DOMAIN converted_files :
      ( /\ converted_files[i].type = PDF_COPIED
        /\ WritersOf(converted_files[i]) = {SourceFile(converted_files[i])} )
      => CopiedIntact(converted_files[i])

\* a nested PDF with an extension in mixed case was copied beside another
\* copied PDF, each to a produced path of its own
C2_Witness ==
  /\ Returned
  /\ Len(converted_files) = 2
  /\ \A i \in DOMAIN converted_files :
       /\ converted_files[i].type = PDF_COPIED
       /\ WritersOf(converted_files[i]) = {SourceFile(converted_files[i])}
  /\ \E i \in DOMAIN converted_files :
       /\ Len(SegsOf(converted_files[i].pdf)) > 1
       /\ name(SegsOf(converted_files[i].pdf)) = K_PDF

----------------------------------------------------------------------------
\* the name of the output file of an input file name, by the type of record
OutputName(r) ==
  IF r.type = PDF_COPIED
    THEN name(SegsOf(r.original))
    ELSE stem(name(SegsOf(r.original))) \o DOT_PDF

(* C3: the produced path of every ConversionRecord is, with
   preserve_structure true, the directory chain of the original followed by
   the output file name, and with preserve_structure false the output file
   name alone. *)
C3_ProducedPathFollowsFlag ==
  \A i \in DOMAIN converted_files :
    LET r == converted_files[i]
    IN IF PreserveArg
         THEN SegsOf(r.pdf) = parent(SegsOf(r.original)) \o << OutputName(r) >>
         ELSE SegsOf(r.pdf) = << OutputName(r) >>

\* flattened: a file two directories deep and a file one directory deep
\* both have records
C3_Witness ==
  /\ ~PreserveArg
  /\ \E i \in DOMAIN converted_files : Len(SegsOf(converted_files[i].original)) = 3
  /\ \E i \in DOMAIN converted_files :
       /\ Len(SegsOf(converted_files[i].original)) = 2
       /\ converted_files[i].type # PDF_COPIED

----------------------------------------------------------------------------
\* the files the claim lets pass unreported
Benign(file_path) ==
  \/ ExtensionOf(file_path) \in {DOT_TXT, DOT_MD, DOT_LOG}
  \/ name(file_path)[1] = "."

NoRecordNoSkip(file_path) == RecordsOf(file_path) = {} /\ SkipsOf(file_path) = {}

SkippedOnce(file_path) ==
  Cardinality(SkipsOf(file_path)) = 1 /\ RecordsOf(file_path) = {}

(* C4 as stated: when process_folder_recursive has returned, every input file
   whose extension is none of doc, docx, ppt, pptx, pdf is in the skip list
   with its relative path, unless its extension is .txt, .md or .log or its
   name begins with '.', in which case it is in neither list. *)
C4_UnsupportedSkippedOrBenign ==
  Returned =>
    \A f \in InputFiles :
      ~ConvertibleExtension(f) =>
        IF Benign(f) THEN NoRecordNoSkip(f) ELSE SkippedOnce(f)

(* C4, amended: the same, with the reserved name uploaded.zip among the
   files that are in neither list. *)
C4_UnsupportedSkippedOrBenignOrReserved ==
  Returned =>
    \A f \in InputFiles :
      ~ConvertibleExtension(f) =>
        IF Benign(f) \/ name(f) = UPLOADED_ZIP
          THEN NoRecordNoSkip(f)
          ELSE SkippedOnce(f)

\* a .csv file was listed as skipped and a file named uploaded.zip, or a
\* .LOG file, or a dot file with the extension .csv, was passed over
C4_Witness ==
  /\ Returned
  /\ \E f \in InputFiles : name(f) = D_CSV /\ SkippedOnce(f)
  /\ \E f \in InputFiles :
       name(f) \in {UPLOADED_ZIP, E_LOG, DOT_D_CSV} /\ NoRecordNoSkip(f)

----------------------------------------------------------------------------
RecordedOnce(file_path) ==
  /\ Cardinality(RecordsOf(file_path)) = 1
  /\ SkipsOf(file_path) = {}
  /\ \A i \in RecordsOf(file_path) : converted_files[i] = ExpectedRecord(file_path)

ConversionFailed(file_path) ==
  \E i \in DOMAIN calls : calls[i].src = file_path /\ ~calls[i].ok

(* C5: process_folder_recursive never raises once the traversal has begun;
   when it has returned, every input file with a convertible extension other
   than the reserved name was processed and has either its one record, the
   same whatever happened to the other files, or exactly one entry in the
   skip list and no record; a file whose converter call failed has the skip
   entry. *)
C5_FailSoft ==
  /\ pc = "pfr_raise" => (visited = {} /\ calls = <<>>)
  /\ Returned =>
       \A f \in InputFiles :
         (ConvertibleExtension(f) /\ name(f) # UPLOADED_ZIP) =>
           /\ RecordedOnce(f) \/ SkippedOnce(f)
           /\ ConversionFailed(f) => SkippedOnce(f)
           /\ ConversionSucceeded(f) => RecordedOnce(f)

\* the first file failed in the converter, the second was processed after
\* it and has its record
C5_Witness ==
  /\ Returned
  /\ Len(calls) = 2
  /\ ~calls[1].ok
  /\ calls[2].ok
  /\ SkippedOnce(calls[1].src)
  /\ RecordedOnce(calls[2].src)

----------------------------------------------------------------------------
InPfr == pc \in {"pfr_entry", "loop", "pfr_return", "pfr_raise"}

NothingUnder(root) ==
  /\ \A p \in DOMAIN files : ~IsPrefix(root, p)
  /\ \A d \in dirs : ~IsPrefix(root, d)

(* C6: called with a traversal root that is not a directory,
   process_folder_recursive does not start the traversal: it raises with no
   record in either list, no converter call and nothing under the output
   root. *)
C6_InvalidRootAborts ==
  (InPfr /\ ~is_dir(InRoot(mode))) =>
    /\ pc \in {"pfr_entry", "pfr_raise"}
    /\ converted_files = <<>>
    /\ skipped_files = <<>>
    /\ calls = <<>>
    /\ NothingUnder(OutRoot(mode))

\* the call raised for a root that is a regular file
C6_Witness ==
  /\ pc = "pfr_raise"
  /\ is_file(InRoot(mode))

----------------------------------------------------------------------------
\* the upload is not a well-formed ZIP archive: it fails is_zipfile, or it
\* passes and cannot be read
BadUpload == mode = "zip" /\ uploaded_zip.valid \in {"notzip", "corrupt"}

NoFilesUnder(root) == \A p \in DOMAIN files : ~IsPrefix(root, p)

NoPartialResults ==
  /\ calls = <<>>
  /\ converted_files = <<>>
  /\ skipped_files = <<>>
  /\ ui.downloads = <<>>
  /\ ui.summary = <<>>

OneErrorShown ==
  /\ ui.errors <= 1
  /\ pc = "done" => ui.errors = 1

(* C7 as stated: for an upload that is not a well-formed ZIP archive nothing
   is ever extracted, no converter is invoked, no record is produced, no
   archive is offered, and exactly one error message is shown. *)
C7_BadArchiveNothingExtracted ==
  BadUpload =>
    /\ NoFilesUnder(InRoot("zip"))
    /\ NoPartialResults
    /\ OneErrorShown

(* C7, amended: for an upload that is not a well-formed ZIP archive no
   converter is invoked, no record is produced, no archive is offered and
   exactly one error message is shown; nothing is extracted when the upload
   fails is_zipfile, and what was extracted before a read error is gone,
   with the temporary directory, when the error is shown. *)
C7_BadArchiveNoPartialResults ==
  BadUpload =>
    /\ NoPartialResults
    /\ OneErrorShown
    /\ uploaded_zip.valid = "notzip" => (files = Empty /\ dirs = {})
    /\ pc \in {"zip_except", "done"} => NothingUnder(TempDir)

\* an archive that could not be read was reported: one error, with the tips
C7_Witness ==
  /\ BadUpload
  /\ uploaded_zip.valid = "corrupt"
  /\ DOMAIN uploaded_zip.members # {}
  /\ pc = "done"
  /\ ui.errors = 1
  /\ ui.tips = 1

----------------------------------------------------------------------------
(* C8: while process_folder_recursive builds its conversion list and when it
   returns it, the produced path of every ConversionRecord is a regular file
   under the output root (a converter call that returns has written its
   output). *)
C8_ProducedPathsExist ==
  pc \in {"loop", "pfr_return"} =>
    \A i \in DOMAIN converted_files :
      /\ is_file(ProducedFile(converted_files[i]))
      /\ ~is_dir(ProducedFile(converted_files[i]))
      /\ IsUnder(ProducedFile(converted_files[i]), OutRoot(mode))

\* two inputs were recorded with the same produced path
C8_Witness ==
  /\ Returned
  /\ Len(converted_files) = 2
  /\ converted_files[1].pdf = converted_files[2].pdf

----------------------------------------------------------------------------
\* the archive has just been built from the output root as it is now
JustPackaged ==
  /\ ui.downloads # <<>>
  /\ \/ pc \in {"zip_cleanup", "files_cleanup"}
     \/ pc = "done" /\ mode = "folder"

\* where the round trip extracts to
Elsewhere == << <<"x">> >>

RelativeFiles(fs, root) ==
  { relative_to(p, root) : p \in { q \in DOMAIN fs : IsUnder(q, root) } }

(* C9: the archive create_zip_from_folder builds has one entry for every
   regular file under the output root and no other, named by the path of the
   file relative to the output root and holding its bytes; extracting it
   gives the same relative paths with the same bytes. *)
C9_ArchiveRoundTrip ==
  JustPackaged =>
    LET a == ui.downloads[1]
        out == OutRoot(mode)
        ex == Extracted(a, DOMAIN a, Elsewhere)
    IN /\ DOMAIN a = { JoinWith(relative_to(p, out), "/") : p \in RglobFiles(out) }
       /\ \A p \in RglobFiles(out) : a[JoinWith(relative_to(p, out), "/")] = files[p]
       /\ RelativeFiles(ex, Elsewhere) = { relative_to(p, out) : p \in RglobFiles(out) }
       /\ \A p \in RglobFiles(out) : ex[Elsewhere \o relative_to(p, out)] = files[p]

\* an archive of two files, one of them in a subdirectory, was offered
C9_Witness ==
  /\ JustPackaged
  /\ pc = "zip_cleanup"
  /\ Cardinality(DOMAIN ui.downloads[1]) = 2
  /\ \E n \in DOMAIN ui.downloads[1] : Len(SplitOn(n, "/")) = 2

----------------------------------------------------------------------------
\* the file of the directory chain segs below root, as the file system
\* resolves it
ChainFile(root, segs) ==
  Resolve(root \o SelectSeq(segs, LAMBDA x : x \notin {<<>>, <<".">>}))

\* the place the claim gives an uploaded name
ClaimedPlace(file_name) ==
  ChainFile(InRoot("folder"), SplitSeps(file_name, {"/", "\\"}))

\* the last item written at the claimed place of item i
LastAt(i) ==
  CHOOSE j \in DOMAIN uploaded_files :
    /\ ClaimedPlace(uploaded_files[j].name) = ClaimedPlace(uploaded_files[i].name)
    /\ \A k \in DOMAIN uploaded_files :
         ClaimedPlace(uploaded_files[k].name) = ClaimedPlace(uploaded_files[i].name)
           => k <= j

(* C10: in a folder upload no conversion starts while items are staged, and
   when the conversion is called every item is a file at the place its name
   gives under the staging root: the segments of the name, split on '/' and
   '\' alike, the last being the file and the others its directory chain. *)
C10_StagedAtSplitName ==
  mode = "folder" =>
    /\ pc \in {"folder_start", "folder_stage"} =>
         (calls = <<>> /\ converted_files = <<>> /\ visited = {})
    /\ pc = "pfr_entry" =>
         /\ staged = Len(uploaded_files)
         /\ \A i \in DOMAIN uploaded_files :
              /\ is_file(ClaimedPlace(uploaded_files[i].name))
              /\ files[ClaimedPlace(uploaded_files[i].name)] =
                   uploaded_files[LastAt(i)].data
              /\ \A d \in PrefixesFrom(InRoot("folder"),
                                       parent(ClaimedPlace(uploaded_files[i].name))) :
                   is_dir(d)

\* the same for the uploads none of whose names begins with a separator
C10_StagedAtSplitNameUnrooted ==
  (\A i \in DOMAIN uploaded_files : uploaded_files[i].name[1] \notin {"/", "\\"})
    => C10_StagedAtSplitName

----------------------------------------------------------------------------
UploadModes == {"zip", "folder", "files"}

\* a step in which create_zip_from_folder ran and its bytes were offered
Packages == ui'.downloads # ui.downloads

(* C11: in each of the three input paths the temporary directory does not
   exist before the invocation creates it, and every step that runs
   create_zip_from_folder runs it while the temporary directory and the
   output root in it still exist. *)
C11_PackagedBeforeDiscard ==
  [][ /\ pc \in {"zip_start", "folder_start", "files_start"} => TempDir \notin dirs
      /\ Packages => (TempDir \in dirs /\ is_dir(OutRoot(mode))) ]_vars

\* the same for the ZIP upload and the individual files alone
C11_PackagedBeforeDiscard_ZipAndFiles ==
  [][ (mode \in {"zip", "files"} /\ Packages)
        => (TempDir \in dirs /\ is_dir(OutRoot(mode))) ]_vars

----------------------------------------------------------------------------
CompletedBatch ==
  /\ pc = "done"
  /\ mode \in UploadModes
  /\ ui.errors = 0
  /\ ui.exceptions = 0

\* the archive entry of a produced path
EntryOf(r) == JoinWith(SegsOf(r.pdf), "/")

(* C12: in each of the three input paths, when the invocation is over and
   the batch gave at least one ConversionRecord, exactly one archive was
   offered and it has an entry for the produced path of every record. *)
C12_ArchiveHoldsEveryProducedPath ==
  (CompletedBatch /\ converted_files # <<>>) =>
    /\ Len(ui.downloads) = 1
    /\ \A i \in DOMAIN converted_files :
         EntryOf(converted_files[i]) \in DOMAIN ui.downloads[1]

\* the same for the ZIP upload and the individual files alone
C12_ArchiveHoldsEveryProducedPath_ZipAndFiles ==
  (CompletedBatch /\ converted_files # <<>> /\ mode \in {"zip", "files"}) =>
    /\ Len(ui.downloads) = 1
    /\ \A i \in DOMAIN converted_files :
         EntryOf(converted_files[i]) \in DOMAIN ui.downloads[1]

----------------------------------------------------------------------------
\* the converter calls made for an input file
CallsFor(file_path) == { i \in DOMAIN calls : calls[i].src = file_path }

WordExtension(file_path) == ExtensionOf(file_path) \in {DOT_DOC, DOT_DOCX}

PowerPointExtension(file_path) == ExtensionOf(file_path) \in {DOT_PPT, DOT_PPTX}

\* every converter call is for a visited file, the Word converter for the
\* extensions doc and docx, the PowerPoint converter for ppt and pptx
CallsByExtension ==
  \A i \in DOMAIN calls :
    /\ calls[i].src \in visited
    /\ calls[i].app \in {"word", "powerpoint"}
    /\ calls[i].app = "word" <=> WordExtension(calls[i].src)
    /\ calls[i].app = "powerpoint" <=> PowerPointExtension(calls[i].src)

\* the directory the output of an input file goes to, by the file and the
\* flag alone
ExpectedOutputDir(file_path) ==
  IF PreserveArg
    THEN OutRoot(mode) \o parent(relative_to(file_path, InRoot(mode)))
    ELSE OutRoot(mode)

\* a regular file stands where the output directory of file_path, or a
\* directory above it, would be
OutputDirBlocked(file_path) ==
  \E q \in DOMAIN files : IsPrefix(q, ExpectedOutputDir(file_path))

(* C13 as stated: every converter call is for a visited file and goes to
   the Word converter exactly for the extensions doc and docx and to the
   PowerPoint converter exactly for ppt and pptx, in any case of the letters
   and for dot files too; every visited file with one of these extensions
   has exactly one converter call and every other visited file has none. *)
C13_OneCallPerOfficeFile ==
  /\ CallsByExtension
  /\ \A f \in visited :
       IF WordExtension(f) \/ PowerPointExtension(f)
         THEN Cardinality(CallsFor(f)) = 1
         ELSE CallsFor(f) = {}

(* C13, amended: the same, except that a visited office file has no
   converter call when its output directory cannot be created because a
   regular file stands in its place; such a file is in the skip list. *)
C13_OneCallPerOfficeFileUnlessBlocked ==
  /\ CallsByExtension
  /\ \A f \in visited :
       IF WordExtension(f) \/ PowerPointExtension(f)
         THEN /\ Cardinality(CallsFor(f)) <= 1
              /\ (CallsFor(f) = {} /\ pc \in {"loop", "pfr_return"}) =>
                   (OutputDirBlocked(f) /\ SkippedOnce(f))
         ELSE CallsFor(f) = {}

\* a dot file with the extension .doc went to the Word converter and a file
\* with the extension .PPT to the PowerPoint converter
C13_Witness ==
  /\ Returned
  /\ \E i \in DOMAIN calls :
       name(calls[i].src) = DOT_Q_DOC /\ calls[i].app = "word"
  /\ \E i \in DOMAIN calls :
       name(calls[i].src) = M_PPT /\ calls[i].app = "powerpoint"

\* an office file was visited and no converter was called for it
C13_BlockedFileVisited ==
  /\ Returned
  /\ \E f \in visited : WordExtension(f) /\ CallsFor(f) = {}

----------------------------------------------------------------------------
\* the input files whose output has the name the output of file_path has
SameOutput(file_path) ==
  { g \in InputFiles :
      /\ ConvertibleExtension(g)
      /\ name(g) # UPLOADED_ZIP
      /\ ExpectedRecord(g).pdf = ExpectedRecord(file_path).pdf }

\* the conversion or the copy of file_path did not fail
Handled(file_path) ==
  IF HasOfficeExtension(file_path)
    THEN ConversionSucceeded(file_path)
    ELSE RecordsOf(file_path) # {}

\* the one of the recorded files W that was processed last
LastOf(W) ==
  CHOOSE g \in W :
    \A h \in W : \A i \in RecordsOf(h) : \E j \in RecordsOf(g) : i <= j

\* what converting or copying file_path writes
ResultOf(file_path) ==
  IF ExtensionOf(file_path) = DOT_PDF
    THEN files[file_path]
    ELSE SavedPdf(files[file_path])

(* C14: when process_folder_recursive has returned with preserve_structure
   false and two or more input files whose conversion or copy did not fail
   map to the same output name, each of them has exactly one record, all
   with the same produced path, none of them is in the skip list, and the
   output file of that name holds the result of the one processed last. *)
C14_LastWriteWins ==
  (Returned /\ ~PreserveArg) =>
    \A f \in InputFiles :
      ( /\ ConvertibleExtension(f)
        /\ name(f) # UPLOADED_ZIP
        /\ Cardinality(SameOutput(f)) >= 2
        /\ \A g \in SameOutput(f) : Handled(g) )
      => /\ \A g \in SameOutput(f) :
              /\ Cardinality(RecordsOf(g)) = 1
              /\ SkipsOf(g) = {}
              /\ \A i \in RecordsOf(g) : \A j \in RecordsOf(f) :
                   converted_files[i].pdf = converted_files[j].pdf
         /\ \A j \in RecordsOf(f) :
              /\ is_file(ProducedFile(converted_files[j]))
              /\ files[ProducedFile(converted_files[j])]
                   = ResultOf(LastOf(SameOutput(f)))

\* with preserve_structure false an office file in a subdirectory and a PDF
\* of the same stem at the root were both recorded, with one produced path
C14_Witness ==
  /\ Returned
  /\ ~PreserveArg
  /\ \E i, j \in DOMAIN converted_files :
       /\ i # j
       /\ converted_files[i].pdf = converted_files[j].pdf
       /\ converted_files[i].type = PDF_COPIED
       /\ converted_files[j].type # PDF_COPIED
       /\ Len(SegsOf(converted_files[j].original)) > 1

----------------------------------------------------------------------------
\* the summary shown lists exactly the records and the skips of the batch
SummaryShown ==
  /\ Len(ui.summary) = 1
  /\ ui.summary[1].converted = converted_files
  /\ ui.summary[1].skipped = skipped_files

(* C15 as stated: in each of the three input paths, when an invocation is
   over without a batch-fatal error, the records and every skip of the batch
   were displayed and one archive was offered for download, whatever the
   number of records. *)
C15_SkipsShownArchiveOffered ==
  CompletedBatch => (SummaryShown /\ Len(ui.downloads) = 1)

(* C15, amended: in each of the three input paths, when an invocation is
   over without a batch-fatal error and the batch gave at least one
   ConversionRecord, the records and every skip of the batch were displayed
   and one archive was offered for download; when the batch gave no record,
   no skip list was displayed and no archive was offered. *)
C15_ShownAndOfferedIfAnyRecord ==
  CompletedBatch =>
    IF converted_files # <<>>
      THEN SummaryShown /\ Len(ui.downloads) = 1
      ELSE ui.summary = <<>> /\ ui.downloads = <<>>

\* an invocation ended with a record and a skip, both displayed, and an
\* archive on offer
C15_Witness ==
  /\ CompletedBatch
  /\ converted_files # <<>>
  /\ skipped_files # <<>>
  /\ SummaryShown
  /\ Len(ui.downloads) = 1

\* an invocation ended with skips alone: nothing of them was displayed
C15_SkipsNotShown ==
  /\ CompletedBatch
  /\ converted_files = <<>>
  /\ skipped_files # <<>>
  /\ ui.summary = <<>>

----------------------------------------------------------------------------
\* one more file, not visited before, is visited in every turn of the loop
VisitsNewFile ==
  (pc = "loop" /\ pc' = "loop") =>
    /\ visited \subseteq visited'
    /\ Cardinality(visited') = Cardinality(visited) + 1
    /\ visited' \subseteq InputFiles

\* no relative path is twice in one list or in both lists
ListsDisjoint ==
  /\ \A i, j \in DOMAIN converted_files :
       converted_files[i].original = converted_files[j].original => i = j
  /\ \A i, j \in DOMAIN skipped_files : skipped_files[i] = skipped_files[j] => i = j
  /\ \A i \in DOMAIN converted_files : \A j \in DOMAIN skipped_files :
       converted_files[i].original # skipped_files[j]

\* one record, or one skip, or neither
OneOutcome(file_path) ==
  Cardinality(RecordsOf(file_path)) + Cardinality(SkipsOf(file_path)) <= 1

EveryFileOneOutcome ==
  /\ ListsDisjoint
  /\ Returned =>
       /\ visited = InputFiles
       /\ \A f \in InputFiles :
            /\ OneOutcome(f)
            /\ name(f) = UPLOADED_ZIP => (NoRecordNoSkip(f) /\ CallsFor(f) = {})

\* a turn of the loop for file_path
Visits(file_path) ==
  \/ VisitReserved(file_path)
  \/ VisitOfficeOk(file_path)
  \/ VisitOfficeNoDir(file_path)
  \/ \E wrote \in BOOLEAN : VisitOfficeFail(file_path, wrote)
  \/ VisitPdfOk(file_path)
  \/ \E wrote \in BOOLEAN : VisitPdfFail(file_path, wrote)
  \/ VisitUnsupported(file_path)
  \/ VisitSilent(file_path)

\* the loop is never stuck: after the last file the function can return,
\* and in a call of process_folder_recursive on a tree the turn for
\* whichever file the listing gives next can be taken
LoopGoesOn ==
  pc = "loop" =>
    IF InputFiles \subseteq visited
      THEN ENABLED PfrReturn
      ELSE mode = "direct" =>
             \A f \in InputFiles \ visited : ENABLED Visits(f)

(* C16: every turn of the loop of process_folder_recursive visits one file
   of the tree not visited before and the loop is never stuck, so that it
   ends after as many turns as the tree has regular files; at the return
   every regular file of the tree was visited and has one record, or one
   skip, or neither; no relative path is in both lists or twice in one, and
   a file named uploaded.zip has no record, no skip and no converter call. *)
C16_TerminatesEveryFileOneOutcome ==
  /\ []EveryFileOneOutcome
  /\ []LoopGoesOn
  /\ [][VisitsNewFile]_vars

\* the traversal returned from a tree with a file named uploaded.zip in a
\* subdirectory and a file that has its record
C16_Witness ==
  /\ Returned
  /\ \E f, g \in visited :
       /\ name(f) = UPLOADED_ZIP /\ NoRecordNoSkip(f)
       /\ Cardinality(RecordsOf(g)) = 1

----------------------------------------------------------------------------
\* the items of the upload are being written, or have just been
Staging == pc \in {"folder_stage", "files_stage", "pfr_entry"}

(* C17: in a folder upload and in an upload of individual files, whatever
   the names of the items, every file written while the items are staged is
   below the staging root, and at no time is there a file or a directory
   outside the temporary directory of the invocation. *)
C17_StagedInsideStagingRoot ==
  mode \in {"folder", "files"} =>
    /\ \A p \in DOMAIN files : IsPrefix(TempDir, p)
    /\ \A d \in dirs : IsPrefix(TempDir, d)
    /\ Staging => \A p \in DOMAIN files : IsUnder(p, InRoot(mode))

\* the same for the names that neither begin with a separator nor have a
\* '..' segment
PlainName(file_name) ==
  /\ file_name[1] \notin {"/", "\\"}
  /\ \A i \in DOMAIN SplitSeps(file_name, PathSeps) :
       SplitSeps(file_name, PathSeps)[i] # <<".", ".">>

C17_PlainNamesStagedInside ==
  ( /\ mode \in {"folder", "files"}
    /\ \A i \in DOMAIN uploaded_files : PlainName(uploaded_files[i].name) ) =>
    /\ \A p \in DOMAIN files : IsPrefix(TempDir, p)
    /\ \A d \in dirs : IsPrefix(TempDir, d)
    /\ Staging => \A p \in DOMAIN files : IsUnder(p, InRoot(mode))

----------------------------------------------------------------------------
\* a converter call has returned or raised
Finished == com.at = "idle" /\ com.result # "none"

\* where in the call the COM call was made
Positions(call) == { i \in DOMAIN com.events : com.events[i].call = call }

Succeeded(call) == \E i \in DOMAIN com.events : com.events[i] = Event(call, TRUE)

Failed(call) == \E i \in DOMAIN com.events : com.events[i] = Event(call, FALSE)

\* Quit was called once, after Open, SaveAs and Close and before
\* CoUninitialize
QuitOnceInPlace ==
  /\ Cardinality(Positions("Quit")) = 1
  /\ \A q \in Positions("Quit") :
       /\ \A i \in Positions("Open") \cup Positions("SaveAs") \cup Positions("Close") :
            i < q
       /\ \A u \in Positions("CoUninitialize") : q < u

\* CoUninitialize was called once if CoInitialize returned, and not
\* otherwise
Uninitialized ==
  Cardinality(Positions("CoUninitialize"))
    = (IF Succeeded("CoInitialize") THEN 1 ELSE 0)

(* C18 as stated: when a call of convert_doc_to_pdf or convert_pptx_to_pdf
   has returned or raised, CoUninitialize was called once for its
   CoInitialize; if Dispatch gave the application object, Quit was called on
   it exactly once, after Open, SaveAs and Close and before CoUninitialize;
   and if Open, SaveAs or Close failed, the call raised. *)
C18_ReleasesWhatItAcquired ==
  Finished =>
    /\ Uninitialized
    /\ Succeeded("Dispatch") => QuitOnceInPlace
    /\ (Failed("Open") \/ Failed("SaveAs") \/ Failed("Close")) =>
         com.result = "raised"

\* the same, with Quit owed only once the application object was also made
\* visible or hidden
C18_ReleasesOnceVisibleSet ==
  Finished =>
    /\ Uninitialized
    /\ Succeeded("Visible") => QuitOnceInPlace
    /\ (Failed("Open") \/ Failed("SaveAs") \/ Failed("Close")) =>
         com.result = "raised"

\* the application object was obtained and the call ended without Quit
C18_ApplicationLeftRunning ==
  /\ Finished
  /\ Succeeded("Dispatch")
  /\ Positions("Quit") = {}

====
